---- MODULE Spec2Model ----
(***************************************************************************)
(* I/O log writer of sudo_logsrvd (src/logsrvd/iolog_writer.c).            *)
(*                                                                         *)
(* The model keeps one session directory on disk with its six files as     *)
(* byte sequences, the connection closure (io_fds, the file offset of each *)
(* open handle, elapsed_time) and the position of the caller inside        *)
(* store_iobuf.  Text written to the timing file is modelled byte by byte  *)
(* (ASCII codes), so that offsets, truncation and re-reading of the file   *)
(* are computed the way the code computes them.                            *)
(*                                                                         *)
(* The BSM audit emitter (src/plugins/sudoers/bsm_audit.c) shares nothing  *)
(* with the writer; its state is the variable bsm and its actions form the *)
(* specification SpecAudit.                                                *)
(***************************************************************************)
EXTENDS Integers, Sequences, FiniteSets, TLC

(***************************************************************************)
(* Bounds of the model.                                                    *)
(***************************************************************************)
MaxRecords == 2
MaxLeaks == 1
MaxAuditCalls == 2

(***************************************************************************)
(* Program constants.                                                      *)
(***************************************************************************)
IOFD_STDIN == 0
IOFD_STDOUT == 1
IOFD_STDERR == 2
IOFD_TTYIN == 3
IOFD_TTYOUT == 4
IOFD_TIMING == 5
IOFD_MAX == 6
IO_EVENT_WINSIZE == 5
IO_EVENT_SUSPEND == 5
TBUF_SIZE == 1024
NSEC_PER_SEC == 1000000000

Slots == 0..(IOFD_MAX - 1)
Streams == 0..(IOFD_TIMING - 1)

(***************************************************************************)
(* Bytes.  Text is a sequence of ASCII codes.                              *)
(***************************************************************************)
NUL == 0
NL == 10
SP == 32
DOT == 46
ZERO == 48

Max(a, b) == IF a >= b THEN a ELSE b

(***************************************************************************)
(* snprintf conversions used by store_iobuf, store_suspend, store_winsize: *)
(* %d, %lld and %zu of a non-negative value, and %09d.                     *)
(***************************************************************************)
RECURSIVE FmtDec(_)
FmtDec(n) ==
    IF n < 10 THEN <<ZERO + n>>
    ELSE FmtDec(n \div 10) \o <<ZERO + (n % 10)>>

FmtPad9(n) ==
    LET d == FmtDec(n)
    IN  IF Len(d) >= 9 THEN d ELSE [i \in 1..(9 - Len(d)) |-> ZERO] \o d

FmtDelay(delay) ==
    FmtDec(delay.tv_sec) \o <<DOT>> \o FmtPad9(delay.tv_nsec)

\* %d of a value that may be negative
FmtInt(n) == IF n < 0 THEN <<45>> \o FmtDec(0 - n) ELSE FmtDec(n)

\* "%d %lld.%09d %zu\n"
FmtIobuf(iofd, delay, nbytes) ==
    FmtInt(iofd) \o <<SP>> \o FmtDelay(delay) \o <<SP>> \o FmtDec(nbytes) \o <<NL>>

\* "%d %lld.%09d %s\n"
FmtSuspend(delay, signal) ==
    FmtDec(IO_EVENT_SUSPEND) \o <<SP>> \o FmtDelay(delay) \o <<SP>> \o signal \o <<NL>>

\* "%d %lld.%09d %d %d\n"
FmtWinsize(delay, rows, cols) ==
    FmtDec(IO_EVENT_WINSIZE) \o <<SP>> \o FmtDelay(delay) \o <<SP>>
        \o FmtDec(rows) \o <<SP>> \o FmtDec(cols) \o <<NL>>

(***************************************************************************)
(* Decoding of one timing line (the decode operation of the timing codec). *)
(***************************************************************************)
IsDigit(c) == c >= ZERO /\ c <= ZERO + 9

\* index of the first byte at or after i that is not a digit (Len+1 if none)
RECURSIVE DigitsEnd(_, _)
DigitsEnd(s, i) ==
    IF i > Len(s) \/ ~IsDigit(s[i]) THEN i ELSE DigitsEnd(s, i + 1)

\* value of the decimal digits s[i..j-1]
RECURSIVE DecVal(_, _, _)
DecVal(s, i, j) ==
    IF j <= i THEN 0 ELSE DecVal(s, i, j - 1) * 10 + (s[j - 1] - ZERO)

BadTiming == [ok |-> FALSE]

ParsePayload(event, delay, p) ==
    LET e == DigitsEnd(p, 1)
    IN  IF Len(p) = 0 THEN BadTiming
        ELSE IF event < IOFD_TIMING
        THEN IF e = Len(p) + 1
             THEN [ok |-> TRUE, event |-> event, delay |-> delay,
                   kind |-> "bytes", nbytes |-> DecVal(p, 1, e)]
             ELSE BadTiming
        ELSE IF e > 1
        THEN \* winsize: rows SP cols
             LET f == DigitsEnd(p, e + 1)
             IN  IF e <= Len(p) /\ p[e] = SP /\ f > e + 1 /\ f = Len(p) + 1
                 THEN [ok |-> TRUE, event |-> event, delay |-> delay,
                       kind |-> "winsize", rows |-> DecVal(p, 1, e),
                       cols |-> DecVal(p, e + 1, f)]
                 ELSE BadTiming
        ELSE \* suspend: a signal name
             IF \A i \in 1..Len(p) : p[i] # SP
             THEN [ok |-> TRUE, event |-> event, delay |-> delay,
                   kind |-> "suspend", signal |-> p]
             ELSE BadTiming

parse_timing(line) ==
    LET e1 == DigitsEnd(line, 1)
        e2 == DigitsEnd(line, e1 + 1)
        e3 == DigitsEnd(line, e2 + 1)
        event == DecVal(line, 1, e1)
        delay == [tv_sec |-> DecVal(line, e1 + 1, e2),
                  tv_nsec |-> DecVal(line, e2 + 1, e3)]
    IN  IF e1 = 1 \/ e1 > Len(line) \/ line[e1] # SP THEN BadTiming
        ELSE IF e1 > 2 \/ event > IOFD_TIMING THEN BadTiming
        ELSE IF e2 = e1 + 1 \/ e2 > Len(line) \/ line[e2] # DOT THEN BadTiming
        ELSE IF e3 - (e2 + 1) # 9 \/ e3 > Len(line) \/ line[e3] # SP THEN BadTiming
        ELSE ParsePayload(event, delay, SubSeq(line, e3 + 1, Len(line)))


(***************************************************************************)
(* Time arithmetic.                                                        *)
(***************************************************************************)
ZeroTime == [tv_sec |-> 0, tv_nsec |-> 0]

RECURSIVE Carry(_)
Carry(ts) ==
    IF ts.tv_nsec >= NSEC_PER_SEC
    THEN Carry([tv_sec |-> ts.tv_sec + 1, tv_nsec |-> ts.tv_nsec - NSEC_PER_SEC])
    ELSE ts

\* as update_elapsed_time, with a single carry instead of the loop
update_elapsed_time_once(delta, elapsed) ==
    LET sec == elapsed.tv_sec + delta.tv_sec
        nsec == elapsed.tv_nsec + delta.tv_nsec
    IN  IF nsec >= NSEC_PER_SEC
        THEN [tv_sec |-> sec + 1, tv_nsec |-> nsec - NSEC_PER_SEC]
        ELSE [tv_sec |-> sec, tv_nsec |-> nsec]

\* elapsed += delta, then carry while tv_nsec >= 10^9
update_elapsed_time(delta, elapsed) ==
    Carry([tv_sec |-> elapsed.tv_sec + delta.tv_sec,
           tv_nsec |-> elapsed.tv_nsec + delta.tv_nsec])

sudo_timespecadd(ts1, ts2) ==
    Carry([tv_sec |-> ts1.tv_sec + ts2.tv_sec,
           tv_nsec |-> ts1.tv_nsec + ts2.tv_nsec])

\* -1, 0, 1 as ts1 is before, equal to, after ts2
sudo_timespeccmp(ts1, ts2) ==
    IF ts1.tv_sec = ts2.tv_sec
    THEN IF ts1.tv_nsec < ts2.tv_nsec THEN -1
         ELSE IF ts1.tv_nsec = ts2.tv_nsec THEN 0 ELSE 1
    ELSE IF ts1.tv_sec < ts2.tv_sec THEN -1 ELSE 1

(***************************************************************************)
(* Files.  A file is [exists, data]; data is its byte sequence.            *)
(***************************************************************************)
NoFile == [exists |-> FALSE, data |-> <<>>]
EmptyFile == [exists |-> TRUE, data |-> <<>>]

Zeros(n) == [i \in 1..n |-> NUL]

\* write(2) of the first n bytes of buf at offset pos
WriteAt(data, pos, buf, n) ==
    LET head == IF pos <= Len(data) THEN SubSeq(data, 1, pos)
                ELSE data \o Zeros(pos - Len(data))
        tail == SubSeq(data, pos + n + 1, Len(data))
    IN  head \o SubSeq(buf, 1, n) \o tail

\* ftruncate(2): cut, or extend with NUL bytes
Ftruncate(data, length) ==
    IF length <= Len(data) THEN SubSeq(data, 1, length)
    ELSE data \o Zeros(length - Len(data))

\* results of write(2) of len bytes: -1 (error), a short count, or len
WriteResults(len) == {-1, len} \cup (IF len >= 1 THEN {len - 1} ELSE {})

\* lowest descriptor number not in use
AllocFd(used) ==
    CHOOSE n \in 3..(3 + Cardinality(used)) :
        n \notin used /\ \A m \in 3..(n - 1) : m \in used

(***************************************************************************)
(* The ExecMessage of a session open and iolog_details_fill.               *)
(* An InfoMessage is [key, value_case, numval]; numval is a 64-bit value   *)
(* kept as [q, r] with numval = q * 2^31 + r and 0 <= r < 2^31, so that    *)
(* values beyond INT_MAX can be told apart.  A string value is modelled by *)
(* its presence: a char pointer of the details is TRUE when it is not NULL.*)
(***************************************************************************)
INT_MAX == 2147483647

I64(q, r) == [q |-> q, r |-> r]

\* as NumLeZero, with 0 let through
NumLeZero_strict(n) == n.q < 0

\* info->numval <= 0
NumLeZero(n) == n.q < 0 \/ (n.q = 0 /\ n.r = 0)

\* info->numval > INT_MAX
NumGtIntMax(n) == n.q > 0

has_numval(info) == info.value_case = "numval"
has_strval(info) == info.value_case = "strval"
has_strlistval(info) == info.value_case = "strlistval"

\* memset(details, 0, sizeof(*details))
NoDetails ==
    [lines |-> 0, columns |-> 0, command |-> FALSE, cwd |-> FALSE,
     argv |-> FALSE, rungroup |-> FALSE, runuser |-> FALSE,
     submithost |-> FALSE, submituser |-> FALSE, ttyname |-> FALSE]

\* one iteration of the loop over msg->info_msgs
FillOne(d, info) ==
    IF info.key = "columns"
    THEN IF ~has_numval(info) THEN d
         ELSE IF NumLeZero(info.numval) \/ NumGtIntMax(info.numval) THEN d
         ELSE [d EXCEPT !.columns = info.numval.r]
    ELSE IF info.key = "lines"
    THEN IF ~has_numval(info) THEN d
         ELSE IF NumLeZero(info.numval) \/ NumGtIntMax(info.numval) THEN d
         ELSE [d EXCEPT !.lines = info.numval.r]
    ELSE IF info.key = "runargv"
    THEN IF has_strlistval(info) THEN [d EXCEPT !.argv = TRUE] ELSE d
    ELSE IF info.key \in {"command", "cwd", "rungroup", "runuser",
                          "submithost", "submituser", "ttyname"}
    THEN IF has_strval(info) THEN [d EXCEPT ![info.key] = TRUE] ELSE d
    ELSE d

RECURSIVE FillFrom(_, _, _)
FillFrom(d, msg, idx) ==
    IF idx > Len(msg) THEN d
    ELSE FillFrom(FillOne(d, msg[idx]), msg, idx + 1)

\* as iolog_details_fill, without the check of the command
iolog_details_fill_nocmd(msg) ==
    LET d == FillFrom([NoDetails EXCEPT !.lines = 24, !.columns = 80], msg, 1)
    IN  [details |-> d,
         ret |-> d.submituser /\ d.submithost]

\* the details, and ret: submituser, submithost and command are all present
iolog_details_fill(msg) ==
    LET d == FillFrom([NoDetails EXCEPT !.lines = 24, !.columns = 80], msg, 1)
    IN  [details |-> d,
         ret |-> d.submituser /\ d.submithost /\ d.command]

(***************************************************************************)
(* Inputs.                                                                 *)
(***************************************************************************)
TS(s, n) == [tv_sec |-> s, tv_nsec |-> n]

StrInfo(key) == [key |-> key, value_case |-> "strval", numval |-> I64(0, 0)]
NumInfo(key, n) == [key |-> key, value_case |-> "numval", numval |-> n]

\* submituser, submithost and command given as strings
GoodMsg == <<StrInfo("submituser"), StrInfo("submithost"), StrInfo("command")>>

\* one of the three left out, or given as a number
LackingMsgs ==
    {SelectSeq(GoodMsg, LAMBDA i : i.key # k) :
        k \in {"submituser", "submithost", "command"}}
    \cup {[j \in 1..3 |-> IF GoodMsg[j].key = k THEN NumInfo(k, I64(0, 1))
                          ELSE GoodMsg[j]] :
        k \in {"submituser", "submithost", "command"}}

\* -1, 0, 1, 132, INT_MAX, INT_MAX + 1
NumVals == {I64(-1, INT_MAX), I64(0, 0), I64(0, 1), I64(0, 132),
            I64(0, INT_MAX), I64(1, 0)}

SizeInfos(key) == {NumInfo(key, n) : n \in NumVals} \cup {StrInfo(key)}

\* the good message, alone or with a lines and a columns value
SizedMsgs ==
    {GoodMsg} \cup {GoodMsg \o <<l, c>> :
                       l \in SizeInfos("lines"), c \in SizeInfos("columns")}

BasicMsgs == {GoodMsg, <<StrInfo("submituser"), StrInfo("submithost")>>}

Delays == {TS(0, 0), TS(0, 500000000)}
ControlDelays == {TS(0, 500000000)}
WideDelays == {TS(0, 0), TS(0, 999999999), TS(1, 1100000000)}
Targets == {TS(0, 0), TS(0, 500000000), TS(0, 750000000), TS(1, 0)}
Chunks == {<<98, 99>>}
AppendStreams == {IOFD_STDIN, IOFD_STDOUT}
Signals == {<<84, 83, 84, 80>>}
WinSizes == {<<24, 80>>}

(***************************************************************************)
(* State.                                                                  *)
(***************************************************************************)
VARIABLES
    dir_exists,     \* the session directory exists on disk
    files,          \* files[i]: the file iolog_names[i] of the directory
    open_fds,       \* descriptors open in the process
    io_fds,         \* closure->io_fds
    fd_pos,         \* file offset of the handle in io_fds[i]
    iolog_dir_fd,   \* closure->iolog_dir_fd
    elapsed_time,   \* closure->elapsed_time
    phase,          \* "initial", "running", "failed", "closed"
    pc,             \* position inside store_iobuf
    call,           \* the call in progress or last returned, with its result
    session,        \* how the closure became ready: "none", "opened", "restarted"
    supplied,       \* delays of the successful store_* calls since it became ready
    resumed,        \* [set, target]: the log is as a successful iolog_restart
                    \* to target left it
    details,        \* the struct iolog_details filled by the last iolog_init
    iolog_dir,      \* closure->iolog_dir: "null", "set", or "freed" (dangling)
    log_info,       \* the file "log" of the directory: [exists, complete, lines, columns]
    events,         \* [ok, list]: the events logged without failure since the
                    \* session open, cut at the record a restart resumed from
    bsm             \* the BSM audit emitter (bsm_audit.c): the call in progress
                    \* or last returned, and the audit descriptors that are open

vars == <<dir_exists, files, open_fds, io_fds, fd_pos, iolog_dir_fd,
          elapsed_time, phase, pc, call, session, supplied, resumed,
          details, iolog_dir, log_info, events, bsm>>

\* bsm before any call: no call in progress, no audit descriptor open
NoAudit ==
    [pc |-> "idle", op |-> "none", cond |-> "none", checked |-> FALSE,
     selected |-> 0, aufd |-> -1, open |-> {}, opened |-> FALSE,
     tokens |-> <<>>, committed |-> 0, calls |-> 0, ret |-> 0]

NoFds == [i \in Slots |-> -1]
NotResumed == [set |-> FALSE, target |-> ZeroTime]
NoLog == [exists |-> FALSE, complete |-> FALSE, lines |-> 0, columns |-> 0]
NoEvents == [ok |-> FALSE, list |-> <<>>]

\* number of lines of a text, an unterminated last line included
NumLines(text) ==
    Cardinality({i \in 1..Len(text) : text[i] = NL})
        + (IF Len(text) > 0 /\ text[Len(text)] # NL THEN 1 ELSE 0)

Init ==
    /\ dir_exists = FALSE
    /\ files = [i \in Slots |-> NoFile]
    /\ open_fds = {}
    /\ io_fds = NoFds
    /\ fd_pos = [i \in Slots |-> 0]
    /\ iolog_dir_fd = -1
    /\ elapsed_time = ZeroTime
    /\ phase = "initial"
    /\ pc = "idle"
    /\ call = [op |-> "none", ret |-> "none"]
    /\ session = "none"
    /\ supplied = <<>>
    /\ resumed = NotResumed
    /\ details = NoDetails
    /\ iolog_dir = "null"
    /\ log_info = NoLog
    /\ events = NoEvents
    /\ bsm = NoAudit

(***************************************************************************)
(* iolog_open: openat(O_CREAT|O_EXCL|O_WRONLY) of iolog_names[iofd].       *)
(* Operates on a record [files, open_fds, io_fds, fd_pos, ok].             *)
(***************************************************************************)
iolog_open(iofd, c) ==
    IF iofd < 0 \/ iofd >= IOFD_MAX THEN [c EXCEPT !.ok = FALSE]
    ELSE IF c.files[iofd].exists
    THEN [c EXCEPT !.io_fds[iofd] = -1, !.ok = FALSE]
    ELSE LET fd == AllocFd(c.open_fds)
         IN  [c EXCEPT !.files[iofd] = EmptyFile,
                       !.open_fds = @ \cup {fd},
                       !.io_fds[iofd] = fd,
                       !.fd_pos[iofd] = 0,
                       !.ok = TRUE]

\* iolog_write: write(2) on io_fds[iofd]; w is the result of write(2)
iolog_write(iofd, buf, w, c) ==
    IF iofd < 0 \/ iofd >= IOFD_MAX THEN [c EXCEPT !.ok = FALSE]
    ELSE LET n == Max(w, 0)
         IN  [c EXCEPT !.files[iofd].data = WriteAt(@, c.fd_pos[iofd], buf, n),
                       !.fd_pos[iofd] = @ + n,
                       !.ok = (w = Len(buf))]

Closure == [files |-> files, open_fds |-> open_fds, io_fds |-> io_fds,
            fd_pos |-> fd_pos, ok |-> TRUE]

Commit(c) ==
    /\ files' = c.files
    /\ open_fds' = c.open_fds
    /\ io_fds' = c.io_fds
    /\ fd_pos' = c.fd_pos


(***************************************************************************)
(* create_iolog_dir.  c is [iolog_dir, iolog_dir_fd, open_fds, leaf, ret]; *)
(* leaf says that the XXXXXX directory made by mkdtemp exists.  fault      *)
(* names the call that fails: "mkdir" (one of the three mkdir or snprintf  *)
(* steps), "mkdtemp", "strdup" or "open".                                  *)
(***************************************************************************)
\* free(p): a pointer that was set is left dangling
Free(p) == IF p = "null" THEN "null" ELSE "freed"

create_iolog_dir(fault, c) ==
    IF fault \in {"mkdir", "mkdtemp"}
    THEN [c EXCEPT !.iolog_dir = Free(@), !.ret = FALSE]
    ELSE IF fault = "strdup"
    THEN [c EXCEPT !.leaf = TRUE, !.iolog_dir = "null", !.ret = FALSE]
    ELSE IF fault = "open"
    THEN [c EXCEPT !.leaf = TRUE, !.iolog_dir = "freed", !.iolog_dir_fd = -1,
                   !.ret = FALSE]
    ELSE [c EXCEPT !.leaf = TRUE, !.iolog_dir = "set",
                   !.iolog_dir_fd = AllocFd(c.open_fds),
                   !.open_fds = @ \cup {AllocFd(c.open_fds)},
                   !.ret = TRUE]

(***************************************************************************)
(* iolog_details_write: the file "log", created exclusively.  fault is     *)
(* "log_openat", "log_fdopen" or "log_write" (ferror after fflush).        *)
(***************************************************************************)
iolog_details_write(fault, d) ==
    IF fault = "log_openat" THEN [ret |-> FALSE, log |-> NoLog]
    ELSE IF fault \in {"log_fdopen", "log_write"}
    THEN [ret |-> FALSE, log |-> [NoLog EXCEPT !.exists = TRUE]]
    ELSE [ret |-> TRUE,
          log |-> [exists |-> TRUE, complete |-> TRUE,
                   lines |-> d.lines, columns |-> d.columns]]

(***************************************************************************)
(* iolog_init: session open.                                               *)
(***************************************************************************)
InitFiles(c) ==
    LET c1 == iolog_open(IOFD_TIMING, c)
        c2 == IF c1.ok THEN iolog_open(IOFD_STDOUT, c1) ELSE c1
        c3 == IF c2.ok THEN iolog_open(IOFD_STDERR, c2) ELSE c2
        c4 == IF c3.ok THEN iolog_open(IOFD_TTYOUT, c3) ELSE c3
    IN  c4

iolog_init(Msgs, Faults) ==
    /\ phase = "initial"
    /\ pc = "idle"
    /\ ~dir_exists
    /\ \E msg \in Msgs, fault \in Faults :
        \E fill \in {iolog_details_fill(msg)} :
        \E d0 \in {[iolog_dir |-> iolog_dir, iolog_dir_fd |-> iolog_dir_fd,
                   open_fds |-> open_fds, leaf |-> FALSE, ret |-> FALSE]} :
        \E d \in {IF fill.ret THEN create_iolog_dir(fault, d0) ELSE d0} :
        \E lg \in {IF d.ret THEN iolog_details_write(fault, fill.details)
                  ELSE [ret |-> FALSE, log |-> log_info]} :
        \E c0 \in {[Closure EXCEPT !.io_fds = NoFds, !.open_fds = d.open_fds]} :
        \E c1 \in {IF lg.ret THEN InitFiles(c0) ELSE [c0 EXCEPT !.ok = FALSE]} :
            /\ Commit(c1)
            /\ dir_exists' = d.leaf
            /\ iolog_dir_fd' = d.iolog_dir_fd
            /\ iolog_dir' = d.iolog_dir
            /\ log_info' = lg.log
            /\ details' = fill.details
            /\ phase' = IF c1.ok THEN "running" ELSE "failed"
            /\ session' = IF c1.ok THEN "opened" ELSE session
            /\ events' = [ok |-> c1.ok, list |-> <<>>]
            /\ call' = [op |-> "iolog_init", msg |-> msg, fault |-> fault,
                        filled |-> fill.ret, built |-> d.ret,
                        ret |-> IF c1.ok THEN "ok" ELSE "fail"]
    /\ supplied' = <<>>
    /\ UNCHANGED <<bsm, elapsed_time, pc, resumed>>

(***************************************************************************)
(* store_iobuf, in its three steps: open as needed, format and write the   *)
(* data; write the timing record; update elapsed_time.                     *)
(***************************************************************************)
\* closure->io_fds[iofd] as store_iobuf reads it, with no check of iofd: an
\* index outside the array reads what lies beside it, -1 or something else
ReadIoFd(iofd) == IF iofd \in Slots THEN {io_fds[iofd]} ELSE {-1, 0}

\* as store_iobuf_data, with the write of the data left out of the first step
store_iobuf_data_late(D, Ids) ==
    /\ phase = "running"
    /\ pc = "idle"
    /\ NumLines(files[IOFD_TIMING].data) < MaxRecords
    /\ \E iofd \in Ids, delay \in D, data \in Chunks :
       \E w \in WriteResults(Len(data)), cur \in ReadIoFd(iofd) :
        \E c1 \in {IF cur = -1 THEN iolog_open(iofd, Closure) ELSE Closure} :
        \E tbuf \in {FmtIobuf(iofd, delay, Len(data))} :
        \E c2 \in {IF ~c1.ok THEN c1
                  ELSE IF Len(tbuf) >= TBUF_SIZE THEN [c1 EXCEPT !.ok = FALSE]
                  ELSE [c1 EXCEPT !.ok = (w = Len(data))]} :
            /\ Commit(c2)
            /\ call' = [op |-> "store_iobuf", iofd |-> iofd, delay |-> delay,
                        data |-> data, tbuf |-> tbuf,
                        err |-> IF ~c1.ok THEN "open"
                                ELSE IF Len(tbuf) >= TBUF_SIZE THEN "format"
                                ELSE IF ~c2.ok THEN "write" ELSE "none",
                        ret |-> IF c2.ok THEN "pending" ELSE "fail"]
            /\ pc' = IF c2.ok THEN "timing" ELSE "idle"
            /\ phase' = IF c2.ok THEN phase ELSE "failed"
            /\ events' = IF c2.ok THEN events ELSE NoEvents
    /\ resumed' = NotResumed
    /\ UNCHANGED <<bsm, dir_exists, iolog_dir_fd, elapsed_time, session, supplied,
                   details, iolog_dir, log_info>>

store_iobuf_data(D, Ids) ==
    /\ phase = "running"
    /\ pc = "idle"
    /\ NumLines(files[IOFD_TIMING].data) < MaxRecords
    /\ \E iofd \in Ids, delay \in D, data \in Chunks :
       \E w \in WriteResults(Len(data)), cur \in ReadIoFd(iofd) :
        \E c1 \in {IF cur = -1 THEN iolog_open(iofd, Closure) ELSE Closure} :
        \E tbuf \in {FmtIobuf(iofd, delay, Len(data))} :
        \E c2 \in {IF ~c1.ok THEN c1
                  ELSE IF Len(tbuf) >= TBUF_SIZE THEN [c1 EXCEPT !.ok = FALSE]
                  ELSE iolog_write(iofd, data, w, c1)} :
            /\ Commit(c2)
            /\ call' = [op |-> "store_iobuf", iofd |-> iofd, delay |-> delay,
                        data |-> data, tbuf |-> tbuf,
                        err |-> IF ~c1.ok THEN "open"
                                ELSE IF Len(tbuf) >= TBUF_SIZE THEN "format"
                                ELSE IF ~c2.ok THEN "write" ELSE "none",
                        ret |-> IF c2.ok THEN "pending" ELSE "fail"]
            /\ pc' = IF c2.ok THEN "timing" ELSE "idle"
            /\ phase' = IF c2.ok THEN phase ELSE "failed"
            /\ events' = IF c2.ok THEN events ELSE NoEvents
    /\ resumed' = NotResumed
    /\ UNCHANGED <<bsm, dir_exists, iolog_dir_fd, elapsed_time, session, supplied,
                   details, iolog_dir, log_info>>

store_iobuf_timing ==
    /\ pc = "timing"
    /\ \E w \in WriteResults(Len(call.tbuf)) :
        \E c \in {iolog_write(IOFD_TIMING, call.tbuf, w, Closure)} :
            /\ Commit(c)
            /\ call' = [call EXCEPT !.ret = IF c.ok THEN "pending" ELSE "fail",
                                    !.err = IF c.ok THEN "none" ELSE "write"]
            /\ pc' = IF c.ok THEN "elapsed" ELSE "idle"
            /\ phase' = IF c.ok THEN phase ELSE "failed"
            /\ events' = IF c.ok THEN events ELSE NoEvents
    /\ UNCHANGED <<bsm, dir_exists, iolog_dir_fd, elapsed_time, session, supplied, resumed,
                   details, iolog_dir, log_info>>

\* the event of a call, as kept in events
EventOf(c) ==
    [iofd |-> IF c.op = "store_iobuf" THEN c.iofd ELSE IOFD_TIMING,
     delay |-> c.delay,
     data |-> IF c.op = "store_iobuf" THEN c.data ELSE <<>>,
     tbuf |-> c.tbuf]

Logged(c) == IF events.ok THEN [events EXCEPT !.list = Append(@, EventOf(c))]
             ELSE events

store_iobuf_elapsed ==
    /\ pc = "elapsed"
    /\ elapsed_time' = update_elapsed_time(call.delay, elapsed_time)
    /\ call' = [call EXCEPT !.ret = "ok"]
    /\ pc' = "idle"
    /\ supplied' = Append(supplied, call.delay)
    /\ events' = Logged(call)
    /\ UNCHANGED <<bsm, dir_exists, files, open_fds, io_fds, fd_pos, iolog_dir_fd,
                   phase, session, resumed, details, iolog_dir, log_info>>

(***************************************************************************)
(* store_suspend and store_winsize: format, write the timing record,       *)
(* update elapsed_time.                                                    *)
(***************************************************************************)
\* as StoreControl, with the record written to the ttyout stream
StoreControl_tty(op, delay, arg, tbuf, w) ==
    \E c \in {IF Len(tbuf) >= TBUF_SIZE THEN [Closure EXCEPT !.ok = FALSE]
             ELSE iolog_write(IOFD_TTYOUT, tbuf, w, Closure)} :
        /\ Commit(c)
        /\ elapsed_time' = IF c.ok THEN update_elapsed_time(delay, elapsed_time)
                           ELSE elapsed_time
        /\ call' = [op |-> op, delay |-> delay, arg |-> arg, tbuf |-> tbuf,
                    err |-> IF Len(tbuf) >= TBUF_SIZE THEN "format"
                            ELSE IF ~c.ok THEN "write" ELSE "none",
                    ret |-> IF c.ok THEN "ok" ELSE "fail"]
        /\ phase' = IF c.ok THEN phase ELSE "failed"
        /\ supplied' = IF c.ok THEN Append(supplied, delay) ELSE supplied
        /\ events' = IF c.ok
                     THEN Logged([op |-> op, delay |-> delay, tbuf |-> tbuf])
                     ELSE NoEvents
        /\ resumed' = NotResumed
        /\ UNCHANGED <<bsm, dir_exists, iolog_dir_fd, pc, session,
                       details, iolog_dir, log_info>>

\* arg is the signal of store_suspend, <<rows, cols>> of store_winsize
StoreControl(op, delay, arg, tbuf, w) ==
    \E c \in {IF Len(tbuf) >= TBUF_SIZE THEN [Closure EXCEPT !.ok = FALSE]
             ELSE iolog_write(IOFD_TIMING, tbuf, w, Closure)} :
        /\ Commit(c)
        /\ elapsed_time' = IF c.ok THEN update_elapsed_time(delay, elapsed_time)
                           ELSE elapsed_time
        /\ call' = [op |-> op, delay |-> delay, arg |-> arg, tbuf |-> tbuf,
                    err |-> IF Len(tbuf) >= TBUF_SIZE THEN "format"
                            ELSE IF ~c.ok THEN "write" ELSE "none",
                    ret |-> IF c.ok THEN "ok" ELSE "fail"]
        /\ phase' = IF c.ok THEN phase ELSE "failed"
        /\ supplied' = IF c.ok THEN Append(supplied, delay) ELSE supplied
        /\ events' = IF c.ok
                     THEN Logged([op |-> op, delay |-> delay, tbuf |-> tbuf])
                     ELSE NoEvents
        /\ resumed' = NotResumed
        /\ UNCHANGED <<bsm, dir_exists, iolog_dir_fd, pc, session,
                       details, iolog_dir, log_info>>

store_suspend(D, Sigs) ==
    /\ phase = "running"
    /\ pc = "idle"
    /\ NumLines(files[IOFD_TIMING].data) < MaxRecords
    /\ \E delay \in D, signal \in Sigs :
       \E tbuf \in {FmtSuspend(delay, signal)} :
       \E w \in WriteResults(Len(tbuf)) :
        StoreControl("store_suspend", delay, signal, tbuf, w)

store_winsize(D) ==
    /\ phase = "running"
    /\ pc = "idle"
    /\ NumLines(files[IOFD_TIMING].data) < MaxRecords
    /\ \E delay \in D, ws \in WinSizes :
       \E tbuf \in {FmtWinsize(delay, ws[1], ws[2])} :
       \E w \in WriteResults(Len(tbuf)) :
        StoreControl("store_winsize", delay, ws, tbuf, w)

(***************************************************************************)
(* iolog_close, and the connection that owns the closure going away and a  *)
(* new connection arriving with a new closure.                             *)
(***************************************************************************)
iolog_close ==
    /\ phase \in {"running", "failed"}
    /\ pc = "idle"
    /\ open_fds' = (open_fds \ {io_fds[i] : i \in Slots}) \ {iolog_dir_fd}
    /\ phase' = "closed"
    /\ call' = [op |-> "iolog_close", ret |-> "none"]
    /\ UNCHANGED <<bsm, dir_exists, files, io_fds, fd_pos, iolog_dir_fd, elapsed_time,
                   pc, session, supplied, resumed, details, iolog_dir, log_info,
                   events>>

new_connection ==
    /\ phase = "closed"
    /\ io_fds' = NoFds
    /\ fd_pos' = [i \in Slots |-> 0]
    /\ iolog_dir_fd' = -1
    /\ elapsed_time' = ZeroTime
    /\ phase' = "initial"
    /\ session' = "none"
    /\ supplied' = <<>>
    /\ call' = [op |-> "none", ret |-> "none"]
    /\ details' = NoDetails
    /\ iolog_dir' = "null"
    /\ UNCHANGED <<bsm, dir_exists, files, open_fds, pc, resumed, log_info, events>>


(***************************************************************************)
(* read_timing_record: fgets of the next line at offset off of the timing  *)
(* file, then parse_timing of the line cut at its newline.                 *)
(* rc is 0 on success, 1 on EOF, -1 on error; off is the offset afterwards.*)
(***************************************************************************)
RECURSIVE LineEnd(_, _)
LineEnd(text, i) ==
    IF i >= Len(text) \/ text[i] = NL THEN i ELSE LineEnd(text, i + 1)

RECURSIVE CString(_, _)
CString(raw, i) ==
    IF i > Len(raw) \/ raw[i] = NL \/ raw[i] = NUL THEN SubSeq(raw, 1, i - 1)
    ELSE CString(raw, i + 1)

read_timing_record(text, off) ==
    IF off >= Len(text) THEN [rc |-> 1, off |-> off]
    ELSE LET end == LineEnd(text, off + 1)
             timing == parse_timing(CString(SubSeq(text, off + 1, end), 1))
         IN  IF timing.ok THEN [rc |-> 0, off |-> end, timing |-> timing]
             ELSE [rc |-> -1, off |-> end]

(***************************************************************************)
(* iolog_restart.                                                          *)
(***************************************************************************)
\* openat(O_RDWR) of each of the six files; a missing file gives -1
RECURSIVE OpenExisting(_, _)
OpenExisting(i, c) ==
    IF i >= IOFD_MAX THEN c
    ELSE OpenExisting(i + 1,
            IF c.files[i].exists
            THEN [c EXCEPT !.io_fds[i] = AllocFd(c.open_fds),
                           !.open_fds = @ \cup {AllocFd(c.open_fds)},
                           !.fd_pos[i] = 0]
            ELSE [c EXCEPT !.io_fds[i] = -1])

\* lseek(fd, nbytes, SEEK_CUR) and ftruncate(fd, length) of one stream;
\* r.fault = "lseek" or "ftruncate" makes that call fail
SeekTruncate(r, event, nbytes) ==
    LET length == r.fd_pos[event] + nbytes
    IN  IF r.fault = "lseek" THEN [r EXCEPT !.why = "io"]
        ELSE IF r.fault = "ftruncate"
        THEN [r EXCEPT !.fd_pos[event] = length, !.why = "io"]
        ELSE [r EXCEPT !.fd_pos[event] = length,
                       !.files[event].data = Ftruncate(@, length)]

\* as StreamMissing, never true
StreamMissing_never(fds, event) == FALSE

\* timing.event < IOFD_TIMING and closure->io_fds[timing.event] == -1
StreamMissing(fds, event) == event < IOFD_TIMING /\ fds[event] = -1

\* the replay loop; r is [files, io_fds, fd_pos, elapsed, off, ok, fault, why],
\* why the reason of a failure: "eof", "decode", "missing", "io", "mismatch"
RECURSIVE Replay(_, _)
Replay(r, target) ==
    LET rec == read_timing_record(r.files[IOFD_TIMING].data, r.off)
    IN  IF rec.rc # 0
        THEN [r EXCEPT !.off = rec.off, !.ok = FALSE,
                       !.why = IF rec.rc = 1 THEN "eof" ELSE "decode"]
        ELSE
        LET r1 == [r EXCEPT !.off = rec.off,
                            !.elapsed = sudo_timespecadd(rec.timing.delay, r.elapsed)]
            ev == rec.timing.event
        IN  IF StreamMissing(r1.io_fds, ev)
            THEN [r1 EXCEPT !.ok = FALSE, !.why = "missing"]
            ELSE
            LET r2 == IF ev < IOFD_TIMING
                      THEN SeekTruncate(r1, ev, rec.timing.nbytes)
                      ELSE r1
                cmp == sudo_timespeccmp(r2.elapsed, target)
            IN  IF r2.why = "io" THEN [r2 EXCEPT !.ok = FALSE]
                ELSE IF cmp >= 0
                THEN [r2 EXCEPT !.ok = (cmp = 0),
                                !.why = IF cmp = 0 THEN "none" ELSE "mismatch"]
                ELSE Replay(r2, target)

\* as FinalizeTiming, without the lseek of the timing handle
FinalizeTiming_noseek(r) ==
    [r EXCEPT !.files[IOFD_TIMING].data = Ftruncate(@, r.off)]

\* as FinalizeTiming, with a length one byte short
FinalizeTiming_short(r) ==
    [r EXCEPT !.fd_pos[IOFD_TIMING] = Max(r.off - 1, 0),
              !.files[IOFD_TIMING].data = Ftruncate(@, Max(r.off - 1, 0))]

\* length = ftello(fp); lseek(timing, length, SEEK_SET); ftruncate(timing, length)
FinalizeTiming(r) ==
    [r EXCEPT !.fd_pos[IOFD_TIMING] = r.off,
              !.files[IOFD_TIMING].data = Ftruncate(@, r.off)]

\* the events up to the first one at which the cumulative delay reaches
\* target, when it reaches it exactly; otherwise no events
RECURSIVE FirstReached(_, _, _, _)
FirstReached(list, k, sum, target) ==
    IF k > Len(list) THEN 0
    ELSE LET t == sudo_timespecadd(list[k].delay, sum)
         IN  IF sudo_timespeccmp(t, target) > 0 THEN 0
             ELSE IF sudo_timespeccmp(t, target) = 0 THEN k
             ELSE FirstReached(list, k + 1, t, target)

Resumable(target) ==
    events.ok /\ FirstReached(events.list, 1, ZeroTime, target) >= 1

\* F: the calls that may fail, "none" for a run in which none does:
\* "strdup", "open", "dup", "fdopen", "lseek", "ftruncate" (inside the loop),
\* "final_lseek", "final_ftruncate"
iolog_restart(T, Phases, F) ==
    /\ phase \in Phases
    /\ pc = "idle"
    \* descriptors still open at the call are leaked ones; their number is capped
    /\ \E target \in T,
          fault \in {f \in F : f = "fdopen" => Cardinality(open_fds) < MaxLeaks} :
        \E opened \in {dir_exists /\ fault \notin {"strdup", "open"}} :
        \E dfd \in {AllocFd(open_fds)} :
        \E c \in {IF opened
                 THEN OpenExisting(0, [Closure EXCEPT !.open_fds = @ \cup {dfd}])
                 ELSE Closure} :
        \E dup_made \in {opened /\ c.io_fds[IOFD_TIMING] # -1 /\ fault # "dup"} :
        \E fp_open \in {dup_made /\ fault # "fdopen"} :
        \E r0 \in {[files |-> c.files, io_fds |-> c.io_fds, fd_pos |-> c.fd_pos,
                   elapsed |-> elapsed_time, off |-> 0, ok |-> FALSE,
                   fault |-> fault, why |-> "none"]} :
        \E r1 \in {IF fp_open THEN Replay(r0, target) ELSE r0} :
        \E r2 \in {IF ~r1.ok THEN [r1 EXCEPT !.fd_pos[IOFD_TIMING] = r1.off]
                  ELSE IF fault = "final_lseek"
                  THEN [r1 EXCEPT !.ok = FALSE, !.why = "io"]
                  ELSE IF fault = "final_ftruncate"
                  THEN [r1 EXCEPT !.fd_pos[IOFD_TIMING] = r1.off,
                                  !.ok = FALSE, !.why = "io"]
                  ELSE FinalizeTiming(r1)} :
        \E dup_closes \in {IF ~fp_open THEN 0
                          ELSE IF r1.ok /\ ~r2.ok THEN 2 ELSE 1} :
        \* the second fclose(fp) acts on a freed FILE: it returns, or the
        \* process is aborted
        \E outcome \in (IF dup_closes = 2 THEN {"fail", "abort"}
                       ELSE IF r2.ok THEN {"ok"} ELSE {"fail"}) :
            /\ files' = r2.files
            /\ fd_pos' = r2.fd_pos
            /\ io_fds' = c.io_fds
            /\ open_fds' = IF outcome = "abort" THEN {}
                           ELSE IF dup_made /\ dup_closes = 0
                           THEN c.open_fds \cup {AllocFd(c.open_fds)}
                           ELSE c.open_fds
            /\ iolog_dir' = IF fault = "strdup" THEN "null" ELSE "set"
            /\ iolog_dir_fd' = IF fault = "strdup" THEN iolog_dir_fd
                               ELSE IF opened THEN dfd ELSE -1
            /\ elapsed_time' = r2.elapsed
            /\ phase' = IF outcome = "ok" THEN "running"
                        ELSE IF outcome = "abort" THEN "aborted" ELSE "failed"
            /\ session' = IF r2.ok THEN "restarted" ELSE session
            /\ call' = [op |-> "iolog_restart", target |-> target,
                        fault |-> fault, why |-> r2.why,
                        dup_made |-> dup_made, dup_closes |-> dup_closes,
                        ret |-> outcome,
                        again |-> resumed = [set |-> TRUE, target |-> target]]
            /\ resumed' = [set |-> r2.ok, target |-> IF r2.ok THEN target ELSE ZeroTime]
            /\ events' = IF r2.ok /\ Resumable(target)
                         THEN [events EXCEPT !.list =
                                 SubSeq(@, 1, FirstReached(@, 1, ZeroTime, target))]
                         ELSE NoEvents
    /\ supplied' = <<>>
    /\ UNCHANGED <<bsm, dir_exists, pc, details, log_info>>

(***************************************************************************)
(* The environment: a stream file of the directory is removed while no     *)
(* connection has the session open.                                        *)
(***************************************************************************)
unlink_stream(Ids) ==
    /\ phase = "closed"
    /\ \E s \in Ids :
        /\ files[s].exists
        /\ files' = [files EXCEPT ![s] = NoFile]
    /\ events' = NoEvents
    /\ resumed' = NotResumed
    /\ UNCHANGED <<bsm, dir_exists, open_fds, io_fds, fd_pos, iolog_dir_fd, elapsed_time,
                   phase, pc, call, session, supplied, details, iolog_dir, log_info>>

(***************************************************************************)
(* Specifications.                                                         *)
(***************************************************************************)
Next ==
    \/ iolog_init(BasicMsgs, {"none"})
    \/ store_iobuf_data(Delays, AppendStreams)
    \/ store_iobuf_timing
    \/ store_iobuf_elapsed
    \/ store_suspend(ControlDelays, Signals)
    \/ store_winsize(ControlDelays)
    \/ iolog_close
    \/ new_connection
    \/ iolog_restart(Targets, {"initial"}, {"none"})

Spec == Init /\ [][Next]_vars


NextElapsed ==
    \/ iolog_init(BasicMsgs, {"none"})
    \/ store_iobuf_data(WideDelays, AppendStreams)
    \/ store_iobuf_timing
    \/ store_iobuf_elapsed
    \/ store_suspend(WideDelays, Signals)
    \/ store_winsize(WideDelays)
    \/ iolog_close

SpecElapsed == Init /\ [][NextElapsed]_vars

(***************************************************************************)
(* Restart with failing calls and with stream files removed from the       *)
(* directory between two connections.                                      *)
(***************************************************************************)
RestartFaults == {"none", "strdup", "open", "dup", "fdopen", "lseek",
                  "ftruncate", "final_lseek", "final_ftruncate"}

NextFaults ==
    \/ iolog_init(BasicMsgs, {"none", "log_openat"})
    \/ store_iobuf_data(ControlDelays, {IOFD_STDIN})
    \/ store_iobuf_timing
    \/ store_iobuf_elapsed
    \/ store_suspend(ControlDelays, Signals)
    \/ iolog_close
    \/ new_connection
    \/ unlink_stream({IOFD_STDIN, IOFD_STDOUT})
    \/ iolog_restart(Targets, {"initial"}, RestartFaults)

SpecFaults == Init /\ [][NextFaults]_vars

(***************************************************************************)
(* The store functions over the whole range of their arguments: store_iobuf*)
(* with an iofd inside and outside the streams, store_suspend with signal  *)
(* names that bring the record to TBUF_SIZE - 1, TBUF_SIZE and             *)
(* TBUF_SIZE + 1 bytes.                                                    *)
(***************************************************************************)
AnyIofds == {-1, IOFD_STDIN, IOFD_TIMING, IOFD_MAX}

\* "5 0.500000000 " and the newline take 15 bytes of the record
LongSignals ==
    {[i \in 1..n |-> 65] : n \in {TBUF_SIZE - 16, TBUF_SIZE - 15, TBUF_SIZE - 14}}

NextStore ==
    \/ iolog_init(BasicMsgs, {"none"})
    \/ store_iobuf_data(Delays, AnyIofds)
    \/ store_iobuf_timing
    \/ store_iobuf_elapsed
    \/ store_suspend(ControlDelays, Signals \cup LongSignals)
    \/ store_winsize(ControlDelays)
    \/ iolog_close

SpecStore == Init /\ [][NextStore]_vars

(***************************************************************************)
(* Session open over the ExecMessages and with each call of                *)
(* create_iolog_dir and iolog_details_write failing in turn.               *)
(***************************************************************************)
InitFaults == {"none", "mkdir", "mkdtemp", "strdup", "open",
               "log_openat", "log_fdopen", "log_write"}

NextOpen ==
    \/ iolog_init(SizedMsgs \cup LackingMsgs, InitFaults)
    \/ store_iobuf_data(ControlDelays, {IOFD_STDIN})
    \/ store_iobuf_timing
    \/ store_iobuf_elapsed
    \/ store_winsize(ControlDelays)
    \/ iolog_close

SpecOpen == Init /\ [][NextOpen]_vars

(***************************************************************************)
(* The closure as the caller hands it over.  iolog_init and iolog_restart  *)
(* receive a closure they did not allocate; its io_fds and iolog_dir_fd    *)
(* hold whatever the caller left there: -1 in every slot, the zeroes of a  *)
(* zeroed allocation, or a mix.  Descriptor 0 belongs to the process and   *)
(* is not one the writer opened (AllocFd gives out 3 and above).           *)
(***************************************************************************)
PriorFds ==
    {NoFds, [i \in Slots |-> 0],
     [i \in Slots |-> IF i = IOFD_STDIN THEN 0 ELSE -1]}

PriorDirFds == {-1, 0}

InitPrior ==
    /\ dir_exists = FALSE
    /\ files = [i \in Slots |-> NoFile]
    /\ open_fds = {}
    /\ io_fds \in PriorFds
    /\ fd_pos = [i \in Slots |-> 0]
    /\ iolog_dir_fd \in PriorDirFds
    /\ elapsed_time = ZeroTime
    /\ phase = "initial"
    /\ pc = "idle"
    /\ call = [op |-> "none", ret |-> "none"]
    /\ session = "none"
    /\ supplied = <<>>
    /\ resumed = NotResumed
    /\ details = NoDetails
    /\ iolog_dir = "null"
    /\ log_info = NoLog
    /\ events = NoEvents
    /\ bsm = NoAudit

\* a new connection whose closure holds any of the prior contents
new_connection_prior ==
    /\ phase = "closed"
    /\ io_fds' \in PriorFds
    /\ fd_pos' = [i \in Slots |-> 0]
    /\ iolog_dir_fd' \in PriorDirFds
    /\ elapsed_time' = ZeroTime
    /\ phase' = "initial"
    /\ session' = "none"
    /\ supplied' = <<>>
    /\ call' = [op |-> "none", ret |-> "none"]
    /\ details' = NoDetails
    /\ iolog_dir' = "null"
    /\ UNCHANGED <<bsm, dir_exists, files, open_fds, pc, resumed, log_info, events>>

PriorInitFaults == {"none", "mkdir", "strdup", "open", "log_openat"}
PriorRestartFaults == {"none", "strdup", "open", "dup"}

NextPrior ==
    \/ iolog_init(BasicMsgs, PriorInitFaults)
    \/ store_iobuf_data(ControlDelays, {IOFD_STDIN})
    \/ store_iobuf_timing
    \/ store_iobuf_elapsed
    \/ iolog_close
    \/ new_connection_prior
    \/ iolog_restart({TS(0, 0), TS(0, 500000000)}, {"initial"}, PriorRestartFaults)

SpecPrior == InitPrior /\ [][NextPrior]_vars

(***************************************************************************)
(* Data, suspend and winsize appends in any order on a session opened by   *)
(* iolog_init, with two signal names.                                      *)
(***************************************************************************)
\* "TSTP", "CONT"
SignalNames == Signals \cup {<<67, 79, 78, 84>>}

NextAppend ==
    \/ iolog_init(BasicMsgs, {"none"})
    \/ store_iobuf_data(Delays, AppendStreams)
    \/ store_iobuf_timing
    \/ store_iobuf_elapsed
    \/ store_suspend(Delays, SignalNames)
    \/ store_winsize(Delays)
    \/ iolog_close

SpecAppend == Init /\ [][NextAppend]_vars

(***************************************************************************)
(* The BSM audit emitter (src/plugins/sudoers/bsm_audit.c).                *)
(* bsm_audit_success and bsm_audit_failure are followed call by call: the  *)
(* audit condition, the preselection, getauid, au_open, the subject token, *)
(* the other tokens, au_close.  The results of the system and library      *)
(* calls are chosen by the environment.  bsm holds                         *)
(*   pc        where the call in progress stands, "idle" when none is      *)
(*   op        the function called                                         *)
(*   cond      the result of auditon(A_GETCOND): "AUC_AUDITING",           *)
(*             "AUC_NOAUDIT", "not_configured" (errno is                   *)
(*             AUDIT_NOT_CONFIGURED) or "error" (another errno)            *)
(*   checked, selected   audit_sudo_selected was called, and its result    *)
(*   aufd      the descriptor au_open returned in this call, -1 before     *)
(*   open      the audit descriptors open in the process                   *)
(*   opened    au_open returned a descriptor in this call                  *)
(*   tokens    the tokens written to the record with au_write              *)
(*   committed the number of records committed by au_close                 *)
(*   ret       the value returned by the last call                         *)
(***************************************************************************)
iolog_vars == <<dir_exists, files, open_fds, io_fds, fd_pos, iolog_dir_fd,
                elapsed_time, phase, pc, call, session, supplied, resumed,
                details, iolog_dir, log_info, events>>

AuditOps == {"bsm_audit_success", "bsm_audit_failure"}
AuditonResults == {"AUC_AUDITING", "AUC_NOAUDIT", "not_configured", "error"}
GetauditAddrResults == {"ok", "ENOSYS", "error"}
CallResults == {"ok", "fail"}
TokenResults == {"tok", "NULL"}

\* debug_return_int(ret)
AuditReturn(b, ret) == [b EXCEPT !.pc = "idle", !.ret = ret]

\* ga: getaudit_addr, g: getaudit, rc: au_preselect
audit_sudo_selected(ga, g, rc) ==
    IF ga = "ok" THEN rc
    ELSE IF ga = "ENOSYS"
    THEN IF g = "fail" THEN -1 ELSE rc
    ELSE -1

\* auditon(A_GETCOND) and the test of au_cond
bsm_audit_cond ==
    /\ bsm.pc = "idle"
    /\ bsm.calls < MaxAuditCalls
    /\ \E op \in AuditOps, r \in AuditonResults :
        \E b \in {[NoAudit EXCEPT !.op = op, !.cond = r, !.open = bsm.open,
                                  !.committed = bsm.committed,
                                  !.calls = bsm.calls + 1]} :
            bsm' = IF r = "not_configured" THEN AuditReturn(b, 0)
                   ELSE IF r = "error" THEN AuditReturn(b, -1)
                   ELSE IF r = "AUC_NOAUDIT" THEN AuditReturn(b, 0)
                   ELSE [b EXCEPT !.pc = "select"]
    /\ UNCHANGED iolog_vars

\* bsm_audit_success: if (selected != 1) return !selected ? 0 : -1
SuccessSelected(b, selected) ==
    IF selected # 1 THEN AuditReturn(b, IF selected = 0 THEN 0 ELSE -1)
    ELSE [b EXCEPT !.pc = "getauid"]

\* bsm_audit_failure: if (!audit_sudo_selected(AU_PRS_FAILURE)) return 0
FailureSelected(b, selected) ==
    IF selected = 0 THEN AuditReturn(b, 0)
    ELSE [b EXCEPT !.pc = "getauid"]

bsm_audit_selected ==
    /\ bsm.pc = "select"
    /\ \E ga \in GetauditAddrResults, g \in CallResults, rc \in {-1, 0, 1} :
        \E selected \in {audit_sudo_selected(ga, g, rc)} :
        \E b \in {[bsm EXCEPT !.checked = TRUE, !.selected = selected]} :
            bsm' = IF bsm.op = "bsm_audit_success"
                   THEN SuccessSelected(b, selected)
                   ELSE FailureSelected(b, selected)
    /\ UNCHANGED iolog_vars

bsm_audit_getauid ==
    /\ bsm.pc = "getauid"
    /\ \E r \in CallResults :
        bsm' = IF r = "fail" THEN AuditReturn(bsm, -1)
               ELSE [bsm EXCEPT !.pc = "open"]
    /\ UNCHANGED iolog_vars

\* aufd = au_open()
bsm_audit_open ==
    /\ bsm.pc = "open"
    /\ \E r \in CallResults :
        bsm' = IF r = "fail" THEN AuditReturn(bsm, -1)
               ELSE [bsm EXCEPT !.aufd = AllocFd(bsm.open),
                                !.open = @ \cup {AllocFd(bsm.open)},
                                !.opened = TRUE,
                                !.pc = "subject"]
    /\ UNCHANGED iolog_vars

\* the token tok is NULL, or is written with au_write
AuditToken(b, tok, name, next) ==
    IF tok = "NULL" THEN AuditReturn(b, -1)
    ELSE [b EXCEPT !.tokens = Append(@, name), !.pc = next]

\* getaudit_addr, or getaudit when it is not implemented, and the subject token
bsm_audit_subject ==
    /\ bsm.pc = "subject"
    /\ \E ga \in GetauditAddrResults, g \in CallResults, tok \in TokenResults :
        bsm' = IF ga = "ok"
               THEN AuditToken(bsm, tok, "subject_ex", "exec_args")
               ELSE IF ga = "ENOSYS"
               THEN IF g = "fail" THEN AuditReturn(bsm, -1)
                    ELSE AuditToken(bsm, tok, "subject", "exec_args")
               ELSE AuditReturn(bsm, -1)
    /\ UNCHANGED iolog_vars

\* au_to_exec_args, au_to_text (bsm_audit_failure only), au_to_return32
bsm_audit_token ==
    /\ bsm.pc \in {"exec_args", "text", "return32"}
    /\ \E tok \in TokenResults :
        bsm' = AuditToken(bsm, tok, bsm.pc,
                          IF bsm.pc = "exec_args"
                          THEN IF bsm.op = "bsm_audit_failure" THEN "text"
                               ELSE "return32"
                          ELSE IF bsm.pc = "text" THEN "return32"
                          ELSE "close")
    /\ UNCHANGED iolog_vars

\* au_close(aufd, 1, AUE_sudo): the record is committed or the commit fails;
\* the descriptor is released in both cases
bsm_audit_close ==
    /\ bsm.pc = "close"
    /\ \E r \in {0, -1} :
        bsm' = AuditReturn([bsm EXCEPT !.open = @ \ {bsm.aufd},
                                      !.committed = @ + (IF r = 0 THEN 1 ELSE 0)],
                           r)
    /\ UNCHANGED iolog_vars

NextAudit ==
    \/ bsm_audit_cond
    \/ bsm_audit_selected
    \/ bsm_audit_getauid
    \/ bsm_audit_open
    \/ bsm_audit_subject
    \/ bsm_audit_token
    \/ bsm_audit_close

SpecAudit == Init /\ [][NextAudit]_vars

(***************************************************************************)
(* Reading of a timing file for the statements below.                      *)
(***************************************************************************)
\* the lines of a text in order: end offset, decoded record, newline present
RECURSIVE SplitLines(_, _)
SplitLines(text, off) ==
    IF off >= Len(text) THEN <<>>
    ELSE LET end == LineEnd(text, off + 1)
         IN  <<[end |-> end,
                rec |-> parse_timing(CString(SubSeq(text, off + 1, end), 1)),
                complete |-> text[end] = NL]>> \o SplitLines(text, end)

IsRecord(l) == l.rec.ok

\* the records of a timing file: its lines that decode (a last line cut
\* before its newline counts when it decodes, as the replay reads it)
TimingRecords(text) == SelectSeq(SplitLines(text, 0), IsRecord)

\* sum of two times, the first one normalised
NormAdd(a, b) ==
    [tv_sec |-> a.tv_sec + b.tv_sec + ((a.tv_nsec + b.tv_nsec) \div NSEC_PER_SEC),
     tv_nsec |-> (a.tv_nsec + b.tv_nsec) % NSEC_PER_SEC]

RECURSIVE NormSum(_)
NormSum(ds) ==
    IF ds = <<>> THEN ZeroTime
    ELSE NormAdd(NormSum(SubSeq(ds, 1, Len(ds) - 1)), ds[Len(ds)])

DelaysOf(ls) == [i \in 1..Len(ls) |-> ls[i].rec.delay]

RECURSIVE PayloadOf(_, _)
PayloadOf(ls, s) ==
    IF ls = <<>> THEN 0
    ELSE (IF ls[1].rec.event = s /\ ls[1].rec.kind = "bytes"
          THEN ls[1].rec.nbytes ELSE 0) + PayloadOf(Tail(ls), s)

\* sum of the payloads of the records of the timing file that refer to stream s
PayloadSum(s) == PayloadOf(TimingRecords(files[IOFD_TIMING].data), s)

\* index of the first line at which the cumulative delay reaches target, 0 if none
RECURSIVE ReachFrom(_, _, _, _)
ReachFrom(ls, k, sum, target) ==
    IF k > Len(ls) \/ ~ls[k].rec.ok THEN 0
    ELSE LET t == NormAdd(sum, ls[k].rec.delay)
         IN  IF sudo_timespeccmp(t, target) >= 0 THEN k
             ELSE ReachFrom(ls, k + 1, t, target)

ReachIndex(text, target) == ReachFrom(SplitLines(text, 0), 1, ZeroTime, target)

\* the cumulative delay after the k-th line
CumDelay(text, k) == NormSum(DelaysOf(SubSeq(SplitLines(text, 0), 1, k)))

\* every line of the text ends in a newline and decodes
WellFormed(text) ==
    \A i \in 1..Len(SplitLines(text, 0)) :
        SplitLines(text, 0)[i].complete /\ SplitLines(text, 0)[i].rec.ok

RestartStep == phase = "initial" /\ call'.op = "iolog_restart"
RestartOk == RestartStep /\ call'.ret = "ok"
Restarted == call.op = "iolog_restart" /\ call.ret = "ok"
TimingText == files[IOFD_TIMING].data


FileLen(i) == Len(files[i].data)

(***************************************************************************)
(* C1: after a successful iolog_restart every existing stream has a length *)
(* equal to the sum of the payloads of the timing records that remain in   *)
(* the timing file and refer to it; a stream that no remaining record      *)
(* refers to has length 0.                                                 *)
(***************************************************************************)
C1_RestartLengths ==
    Restarted /\ WellFormed(TimingText) =>
        \A s \in Streams : files[s].exists => FileLen(s) = PayloadSum(s)

(***************************************************************************)
(* C2: a successful iolog_restart does not alter the bytes it preserves:   *)
(* each stream after the restart is a prefix of the stream before it.      *)
(***************************************************************************)
C2_RestartKeepsBytes ==
    [][RestartOk /\ WellFormed(TimingText) =>
        \A s \in Streams :
            /\ Len(files'[s].data) <= Len(files[s].data)
            /\ \A i \in 1..Len(files'[s].data) :
                   files'[s].data[i] = files[s].data[i]]_vars

(***************************************************************************)
(* C3: iolog_restart to a target strictly between the cumulative elapsed   *)
(* times of two consecutive timing records fails and leaves every stream   *)
(* file and the timing file as they were at the call.                      *)
(***************************************************************************)
Between(text, target) ==
    \E k \in 1..(Len(SplitLines(text, 0)) - 1) :
        /\ \A j \in 1..(k + 1) : SplitLines(text, 0)[j].rec.ok
        /\ sudo_timespeccmp(CumDelay(text, k), target) < 0
        /\ sudo_timespeccmp(target, CumDelay(text, k + 1)) < 0

C3_MismatchLeavesFiles ==
    [][RestartStep /\ WellFormed(TimingText) /\ Between(TimingText, call'.target) =>
        call'.ret = "fail" /\ files' = files]_vars

(***************************************************************************)
(* C4: in a ready session a successful append_data(s, d, b) makes stream s *)
(* longer by |b| and appends to the timing file exactly one record of      *)
(* event s, delay d and payload |b|.                                       *)
(***************************************************************************)
C4_AppendGrows ==
    [][/\ (pc = "idle" /\ pc' = "timing") =>
            /\ Len(files'[call'.iofd].data)
                   = Len(files[call'.iofd].data) + Len(call'.data)
            /\ files'[IOFD_TIMING] = files[IOFD_TIMING]
       /\ (pc = "timing" /\ pc' = "elapsed") =>
            /\ files'[IOFD_TIMING].data = files[IOFD_TIMING].data \o call.tbuf
            /\ \A s \in Streams : files'[s] = files[s]
            /\ LET l == SplitLines(call.tbuf, 0)
               IN  /\ Len(l) = 1 /\ l[1].complete /\ l[1].rec.ok
                   /\ l[1].rec.event = call.iofd
                   /\ l[1].rec.delay = call.delay
                   /\ l[1].rec.nbytes = Len(call.data)
       /\ (pc = "elapsed" /\ pc' = "idle") => files' = files]_vars

(***************************************************************************)
(* C5: on a session opened by iolog_init, elapsed_time is the normalised   *)
(* sum of the delays supplied to the successful store_iobuf, store_suspend *)
(* and store_winsize calls, its nanoseconds in [0, 10^9), also when a      *)
(* supplied delay has nanoseconds >= 10^9.                                 *)
(***************************************************************************)
C5_ElapsedIsSum ==
    session # "restarted" =>
        /\ elapsed_time = NormSum(supplied)
        /\ elapsed_time.tv_nsec >= 0
        /\ elapsed_time.tv_nsec < NSEC_PER_SEC

C5_Witness ==
    /\ session = "opened"
    /\ pc = "idle"
    /\ supplied = <<TS(0, 999999999), TS(1, 1100000000)>>
    /\ elapsed_time = TS(3, 99999999)


(***************************************************************************)
(* C6: within store_iobuf the data reaches the stream before the timing    *)
(* record is written, and elapsed_time is updated last; so while a session *)
(* opened by iolog_init is logging, each stream is at least as long as the *)
(* payloads of the timing records that refer to it, and longer by at most  *)
(* the chunk of the append in progress or failed.                          *)
(***************************************************************************)
Excess(s) == FileLen(s) - PayloadSum(s)

InFlight(s) ==
    IF call.op = "store_iobuf" /\ call.iofd = s /\ (pc = "timing" \/ call.ret = "fail")
    THEN Len(call.data) ELSE 0

C7_ElapsedMatchesTiming ==
    (phase = "running" /\ pc = "idle") =>
        elapsed_time = NormSum(DelaysOf(TimingRecords(TimingText)))

(***************************************************************************)
(* C8: a successful iolog_restart leaves the timing file cut at the offset *)
(* P just past the first record whose cumulative delay reaches the target, *)
(* with the timing handle positioned at P, and the timing record of every  *)
(* later append is written at the end of the file.                         *)
(***************************************************************************)
ReachOffset(text, target) ==
    IF ReachIndex(text, target) = 0 THEN -1
    ELSE SplitLines(text, 0)[ReachIndex(text, target)].end

C8_TimingCutAtP ==
    [][/\ RestartOk =>
            \E P \in {ReachOffset(TimingText, call'.target)} :
                /\ P >= 0
                /\ files'[IOFD_TIMING].data = SubSeq(TimingText, 1, P)
                /\ fd_pos'[IOFD_TIMING] = P
       /\ (session = "restarted" /\ pc = "timing" /\ pc' = "elapsed") =>
            files'[IOFD_TIMING].data = TimingText \o call.tbuf
       /\ (session = "restarted" /\ pc = "idle" /\ pc' = "idle"
             /\ call'.op \in {"store_suspend", "store_winsize"}
             /\ call'.ret = "ok") =>
            files'[IOFD_TIMING].data = TimingText \o call'.tbuf]_vars

C8_Witness ==
    /\ session = "restarted"
    /\ call.op = "store_iobuf"
    /\ call.ret = "ok"
    /\ Len(TimingRecords(TimingText)) = 2
    /\ WellFormed(TimingText)

(***************************************************************************)
(* C9: iolog_restart with target (0, 0) on an existing session log         *)
(* succeeds and leaves the five streams and the timing file with length 0  *)
(* and elapsed_time (0, 0).                                                *)
(***************************************************************************)
C9_RestartToZero ==
    [][(RestartStep /\ call'.target = ZeroTime /\ dir_exists
          /\ files[IOFD_TIMING].exists /\ WellFormed(TimingText)) =>
            /\ call'.ret = "ok"
            /\ \A i \in Slots : Len(files'[i].data) = 0
            /\ elapsed_time' = ZeroTime]_vars

(***************************************************************************)
(* C10: after a successful iolog_restart to T, a restart of the same log   *)
(* to the same T by the next connection succeeds and changes the length of *)
(* no stream file and not of the timing file.                              *)
(***************************************************************************)
C10_RestartIdempotent ==
    [][(RestartStep /\ call'.again) =>
            /\ call'.ret = "ok"
            /\ \A i \in Slots :
                /\ files'[i].exists = files[i].exists
                /\ Len(files'[i].data) = Len(files[i].data)]_vars

C10_Witness ==
    /\ call.op = "iolog_restart"
    /\ call.again
    /\ call.ret = "ok"
    /\ \E s \in Streams : FileLen(s) > 0
    /\ Len(TimingRecords(TimingText)) >= 1

(***************************************************************************)
(* C11: a last timing line without its newline is not used as a record by  *)
(* the replay.  When the complete lines do not reach the target the        *)
(* restart fails, elapsed_time is the sum of the delays of the complete    *)
(* lines and no stream is changed on account of the partial line; when the *)
(* target is reached at the last complete line the restart cuts the        *)
(* partial line off the timing file.                                       *)
(***************************************************************************)
HasPartial(text) == Len(text) > 0 /\ text[Len(text)] # NL

RECURSIVE CompletePart(_)
CompletePart(text) ==
    IF Len(text) = 0 \/ text[Len(text)] = NL THEN text
    ELSE CompletePart(SubSeq(text, 1, Len(text) - 1))

C11_PartialLineIgnored ==
    [][(RestartStep /\ dir_exists /\ files[IOFD_TIMING].exists
          /\ HasPartial(TimingText) /\ WellFormed(CompletePart(TimingText))) =>
        LET whole == CompletePart(TimingText)
            n == Len(SplitLines(whole, 0))
        IN  /\ ReachIndex(whole, call'.target) = 0 =>
                /\ call'.ret = "fail"
                /\ elapsed_time' = CumDelay(whole, n)
                /\ \A s \in Streams :
                       PayloadOf(TimingRecords(whole), s) = 0 =>
                           files'[s] = files[s]
            /\ (ReachIndex(whole, call'.target) = n /\ n >= 1
                  /\ CumDelay(whole, n) = call'.target) =>
                /\ call'.ret = "ok"
                /\ files'[IOFD_TIMING].data = whole]_vars

(***************************************************************************)
(* C12: when no call fails, iolog_restart of a log whose timing lines are  *)
(* all terminated succeeds exactly when the directory and the timing file  *)
(* exist and the records, read in order, reach the target exactly before   *)
(* the file ends, before a line that does not decode and before a          *)
(* byte-stream record whose stream file is missing.  Missing stream files  *)
(* that no replayed record refers to do not make it fail.                  *)
(***************************************************************************)
RECURSIVE Verdict(_, _, _, _, _)
Verdict(ls, k, sum, target, present) ==
    IF k > Len(ls) THEN "eof"
    ELSE IF ~ls[k].rec.ok THEN "decode"
    ELSE IF ls[k].rec.kind = "bytes" /\ ~present[ls[k].rec.event] THEN "missing"
    ELSE LET t == NormAdd(sum, ls[k].rec.delay)
         IN  IF sudo_timespeccmp(t, target) > 0 THEN "mismatch"
             ELSE IF sudo_timespeccmp(t, target) = 0 THEN "ok"
             ELSE Verdict(ls, k + 1, t, target, present)

RestartVerdict(target) ==
    IF ~dir_exists THEN "nodir"
    ELSE IF ~files[IOFD_TIMING].exists THEN "notiming"
    ELSE Verdict(SplitLines(TimingText, 0), 1, ZeroTime, target,
                 [s \in Streams |-> files[s].exists])

C12_RestartTolerance ==
    [][(RestartStep /\ call'.fault = "none" /\ ~HasPartial(TimingText)) =>
        /\ call'.ret = (IF RestartVerdict(call'.target) = "ok" THEN "ok" ELSE "fail")
        /\ RestartVerdict(call'.target) \in {"eof", "decode", "missing", "mismatch"}
              => call'.why = RestartVerdict(call'.target)]_vars

C12_Witness ==
    /\ call.op = "iolog_restart"
    /\ call.fault = "none"
    /\ call.ret = "fail"
    /\ call.why = "missing"
    /\ \E s \in Streams : ~files[s].exists /\ PayloadSum(s) > 0

(***************************************************************************)
(* C13: store_iobuf with an iofd outside 0..4 fails, writes nothing to any *)
(* stream file or to the timing file, creates no file and leaves           *)
(* elapsed_time as it was.                                                 *)
(***************************************************************************)
StoreDataStep == phase = "running" /\ pc = "idle" /\ call'.op = "store_iobuf"

C13_InvalidStream ==
    [][/\ (StoreDataStep /\ call'.iofd \notin Streams) =>
            /\ call'.ret = "fail"
            /\ files' = files
            /\ elapsed_time' = elapsed_time
       /\ (pc # "idle" /\ call.iofd \notin Streams) =>
            /\ files' = files
            /\ elapsed_time' = elapsed_time]_vars

(***************************************************************************)
(* C18: store_iobuf, store_suspend and store_winsize fail for the length   *)
(* of the record exactly when the formatted timing record is longer than   *)
(* 1024 bytes, a record of exactly 1024 bytes being written; a call that   *)
(* fails for that reason writes nothing and leaves elapsed_time unchanged. *)
(***************************************************************************)
StoreStep ==
    /\ phase = "running"
    /\ pc = "idle"
    /\ call'.op \in {"store_iobuf", "store_suspend", "store_winsize"}

C18_FormatOverflow ==
    [][StoreStep =>
        /\ (call'.err = "format") <=> (Len(call'.tbuf) > TBUF_SIZE)
        /\ call'.err = "format" =>
            /\ files' = files
            /\ elapsed_time' = elapsed_time]_vars

(***************************************************************************)
(* C14: when the ExecMessage has no string value for submituser, for       *)
(* submithost or for command, iolog_init fails, creates no directory and   *)
(* no file, and opens no handle.                                           *)
(***************************************************************************)
InitStep == phase = "initial" /\ call'.op = "iolog_init"

Lacks(msg, key) ==
    ~\E i \in 1..Len(msg) : msg[i].key = key /\ msg[i].value_case = "strval"

LacksRequired(msg) ==
    Lacks(msg, "submituser") \/ Lacks(msg, "submithost") \/ Lacks(msg, "command")

C14_MissingFieldsAbort ==
    [][(InitStep /\ LacksRequired(call'.msg)) =>
        /\ call'.ret = "fail"
        /\ ~dir_exists'
        /\ \A i \in Slots : ~files'[i].exists
        /\ ~log_info'.exists
        /\ open_fds' = open_fds
        /\ io_fds' = NoFds
        /\ iolog_dir_fd' = -1
        /\ iolog_dir' = "null"]_vars

C14_Witness ==
    /\ call.op = "iolog_init"
    /\ call.ret = "fail"
    /\ call.fault = "none"
    /\ \E i \in 1..Len(call.msg) :
           call.msg[i].key = "command" /\ call.msg[i].value_case = "numval"
    /\ ~Lacks(call.msg, "submituser")
    /\ ~Lacks(call.msg, "submithost")
    /\ ~dir_exists

(***************************************************************************)
(* C15: when create_iolog_dir fails nothing of it remains: the leaf        *)
(* directory made by mkdtemp is removed again, and the closure holds no    *)
(* directory path and no directory handle.                                 *)
(***************************************************************************)
C15_BuilderLeavesNothing ==
    [][(InitStep /\ ~LacksRequired(call'.msg)
          /\ call'.fault \in {"mkdir", "mkdtemp", "strdup", "open"}) =>
        /\ call'.ret = "fail"
        /\ ~dir_exists'
        /\ iolog_dir' = "null"
        /\ iolog_dir_fd' = -1]_vars

(***************************************************************************)
(* C16: lines is 24 and columns is 80 after iolog_details_fill unless the  *)
(* ExecMessage gives the value as a number in 1..INT_MAX, which is then    *)
(* used as given; 0, a negative number, a number above INT_MAX and a value *)
(* that is not a number leave the default.  The file "log" is written with *)
(* these values.                                                           *)
(***************************************************************************)
\* the value the message gives for key when it is one the details may take
Given(msg, key, default) ==
    IF \E i \in 1..Len(msg) :
           /\ msg[i].key = key
           /\ msg[i].value_case = "numval"
           /\ msg[i].numval.q = 0
           /\ msg[i].numval.r >= 1
    THEN msg[CHOOSE i \in 1..Len(msg) : msg[i].key = key].numval.r
    ELSE default

C16_SizeDefaults ==
    [][InitStep =>
        /\ details'.lines = Given(call'.msg, "lines", 24)
        /\ details'.columns = Given(call'.msg, "columns", 80)
        /\ log_info'.complete =>
            /\ log_info'.lines = details'.lines
            /\ log_info'.columns = details'.columns]_vars

C16_Witness ==
    /\ call.op = "iolog_init"
    /\ call.ret = "ok"
    /\ \E i \in 1..Len(call.msg) :
           call.msg[i] = NumInfo("lines", I64(0, INT_MAX))
    /\ \E i \in 1..Len(call.msg) :
           call.msg[i] = NumInfo("columns", I64(1, 0))
    /\ details.lines = INT_MAX
    /\ details.columns = 80
    /\ log_info.complete

(***************************************************************************)
(* C17: stream files are created on the first store_iobuf to them: after a *)
(* successful iolog_init no stream file exists and no stream handle is     *)
(* open; the first store_iobuf to a stream creates its file, and later     *)
(* ones use the handle that is open.                                       *)
(***************************************************************************)
C17_LazyStreams ==
    [][/\ (InitStep /\ call'.ret = "ok") =>
            \A s \in Streams : ~files'[s].exists /\ io_fds'[s] = -1
       /\ (StoreDataStep /\ call'.iofd \in Streams /\ call'.err # "open") =>
            IF io_fds[call'.iofd] = -1
            THEN /\ ~files[call'.iofd].exists
                 /\ files'[call'.iofd].exists
                 /\ io_fds'[call'.iofd] # -1
            ELSE io_fds' = io_fds]_vars

(***************************************************************************)
(* C19: resume equivalence.  When the events E were logged without failure *)
(* and the cumulative delay T is first reached at the k-th of them,        *)
(* iolog_restart to T succeeds, and then and after every further event the *)
(* stream files, the timing file and elapsed_time are what iolog_init      *)
(* followed by E[1..k] and the further events produces: each stream the    *)
(* data of its events in order, the timing file their records in order,    *)
(* elapsed_time the sum of their delays.                                   *)
(***************************************************************************)
RECURSIVE RenderStream(_, _)
RenderStream(list, s) ==
    IF list = <<>> THEN <<>>
    ELSE (IF list[1].iofd = s THEN list[1].data ELSE <<>>)
             \o RenderStream(Tail(list), s)

RECURSIVE RenderTiming(_)
RenderTiming(list) ==
    IF list = <<>> THEN <<>> ELSE list[1].tbuf \o RenderTiming(Tail(list))

\* the files iolog_init creates, and those of the streams written to
RenderExists(list, s) ==
    \/ s \in {IOFD_STDOUT, IOFD_STDERR, IOFD_TTYOUT}
    \/ \E i \in 1..Len(list) : list[i].iofd = s

AsLogged ==
    /\ \A s \in Streams :
        /\ files[s].exists = RenderExists(events.list, s)
        /\ files[s].data = RenderStream(events.list, s)
    /\ TimingText = RenderTiming(events.list)
    /\ elapsed_time = NormSum([i \in 1..Len(events.list) |-> events.list[i].delay])

C19_ResumeEquivalence ==
    [][/\ (RestartStep /\ Resumable(call'.target)) => call'.ret = "ok"
       /\ (events.ok /\ phase = "running" /\ pc = "idle") => AsLogged
       /\ (events'.ok /\ phase' = "running" /\ pc' = "idle") => AsLogged']_vars

\* the same, before any restart
C19_BeforeRestart ==
    (events.ok /\ phase = "running" /\ pc = "idle" /\ session = "opened") => AsLogged

(***************************************************************************)
(* C20: on every path of iolog_restart on which the timing handle was      *)
(* duplicated, the duplicate is closed exactly once before the function    *)
(* returns.                                                                *)
(***************************************************************************)
C20_DupClosedOnce ==
    [][(RestartStep /\ call'.dup_made) => call'.dup_closes = 1]_vars

\* the same, on the paths other than a failing fdopen and a failing final
\* lseek or ftruncate
C20_OtherPaths ==
    [][(RestartStep /\ call'.dup_made
          /\ call'.fault \notin {"fdopen", "final_lseek", "final_ftruncate"}) =>
            call'.dup_closes = 1]_vars

(***************************************************************************)
(* C21: whatever io_fds and iolog_dir_fd held before the call, when        *)
(* iolog_init or iolog_restart returns, with success or with a failure,    *)
(* every io_fds slot and iolog_dir_fd is -1 or a handle that this call     *)
(* opened; so iolog_close closes only handles that the session opened.     *)
(***************************************************************************)
OpenedBy == open_fds' \ open_fds

HandlesOf(fds, dfd) == ({fds[i] : i \in Slots} \cup {dfd}) \ {-1}

C21_HandlesOwned ==
    [][/\ ((InitStep \/ RestartStep) /\ call'.ret \in {"ok", "fail"}) =>
            HandlesOf(io_fds', iolog_dir_fd') \subseteq OpenedBy
       /\ call'.op = "iolog_close" /\ call.op # "iolog_close" =>
            HandlesOf(io_fds, iolog_dir_fd) \subseteq open_fds]_vars

\* the same for a closure handed over with -1 in every slot
C21_FromAbsent ==
    [][((InitStep \/ RestartStep) /\ call'.ret \in {"ok", "fail"}
          /\ HandlesOf(io_fds, iolog_dir_fd) = {}) =>
            HandlesOf(io_fds', iolog_dir_fd') \subseteq OpenedBy]_vars

(***************************************************************************)
(* C22: store_suspend and store_winsize change no stream file (existence,  *)
(* content, length) and no stream handle, and a successful call appends    *)
(* exactly one record to the timing file, the signal as given; whatever    *)
(* the order of the data, suspend and winsize appends, the timing file     *)
(* holds one record per successful call, in the order of the calls.        *)
(***************************************************************************)
ControlStep ==
    /\ phase = "running"
    /\ pc = "idle"
    /\ call'.op \in {"store_suspend", "store_winsize"}

StreamsKept ==
    \A s \in Streams :
        /\ files'[s] = files[s]
        /\ io_fds'[s] = io_fds[s]
        /\ fd_pos'[s] = fd_pos[s]

\* text is one complete line that decodes to the record of the call c
IsRecordOf(text, c) ==
    LET l == SplitLines(text, 0)
    IN  /\ Len(l) = 1
        /\ l[1].complete
        /\ l[1].rec.ok
        /\ l[1].rec.event = IO_EVENT_SUSPEND
        /\ l[1].rec.delay = c.delay
        /\ IF c.op = "store_suspend"
           THEN l[1].rec.kind = "suspend" /\ l[1].rec.signal = c.arg
           ELSE /\ l[1].rec.kind = "winsize"
                /\ l[1].rec.rows = c.arg[1]
                /\ l[1].rec.cols = c.arg[2]

\* the lines l of the text are the records of the events of list, in their order
InCallOrder(text, l, list) ==
    /\ Len(l) = Len(list)
    /\ \A i \in 1..Len(l) :
        /\ l[i].complete
        /\ l[i].rec.ok
        /\ l[i].rec.event = list[i].iofd
        /\ l[i].rec.delay = list[i].delay
        /\ SubSeq(text, (IF i = 1 THEN 0 ELSE l[i - 1].end) + 1, l[i].end)
               = list[i].tbuf

C22_ControlRecords ==
    [][/\ ControlStep =>
            /\ StreamsKept
            /\ call'.ret = "ok" =>
                /\ files'[IOFD_TIMING].data = TimingText \o call'.tbuf
                /\ IsRecordOf(call'.tbuf, call')
       /\ (events'.ok /\ phase' = "running" /\ pc' = "idle") =>
            \E l \in {SplitLines(files'[IOFD_TIMING].data, 0)} :
                InCallOrder(files'[IOFD_TIMING].data, l, events'.list)]_vars

C22_Witness ==
    /\ call.op = "store_suspend"
    /\ call.ret = "ok"
    /\ events.ok
    /\ Len(events.list) = 2
    /\ events.list[1].iofd = IOFD_STDOUT
    /\ FileLen(IOFD_STDOUT) > 0
    /\ Len(SplitLines(TimingText, 0)) = 2

(***************************************************************************)
(* C23: bsm_audit_success and bsm_audit_failure open and commit an audit   *)
(* record only when the audit condition was obtained and is not            *)
(* AUC_NOAUDIT and audit_sudo_selected returned 1.  When auditing is off   *)
(* or not configured, or the event is not selected, they return 0 and open *)
(* no record; when audit_sudo_selected returns -1 they return -1 and open  *)
(* no record.                                                              *)
(***************************************************************************)
AuditReturned == bsm.pc = "idle" /\ bsm.calls > 0

AuditGated ==
    /\ bsm.opened =>
        bsm.cond = "AUC_AUDITING" /\ bsm.checked /\ bsm.selected = 1
    /\ AuditReturned =>
        /\ (bsm.cond \in {"AUC_NOAUDIT", "not_configured"}
              \/ (bsm.checked /\ bsm.selected = 0)) =>
                bsm.ret = 0 /\ ~bsm.opened
        /\ (bsm.checked /\ bsm.selected = -1) =>
                bsm.ret = -1 /\ ~bsm.opened

C23_RecordOnlyWhenSelected == bsm.op \in AuditOps => AuditGated

\* the same for bsm_audit_success alone
C23_Success == bsm.op = "bsm_audit_success" => AuditGated

(***************************************************************************)
(* C24: every audit descriptor obtained from au_open is closed by au_close *)
(* before bsm_audit_success or bsm_audit_failure returns, on every path,   *)
(* the paths that return -1 for a token that could not be built or for the *)
(* audit info that could not be read included.                             *)
(***************************************************************************)
C24_DescriptorClosed ==
    AuditReturned => bsm.open = {}

\* the same on the path that reaches au_close
C24_AfterClose ==
    (AuditReturned /\ bsm.opened
       /\ bsm.tokens # <<>> /\ bsm.tokens[Len(bsm.tokens)] = "return32") =>
        bsm.aufd \notin bsm.open

====
